---- MODULE Spec2Model ----
(***************************************************************************)
(* Bird Observation Dashboard (src/project.py, src/main.py).               *)
(*                                                                         *)
(* Two Streamlit scripts fetch recent eBird observations and render them   *)
(* as a map, a line plot, a bar graph and a table.  project.py is the      *)
(* multi-species dashboard with a cached fetch; main.py is the             *)
(* single-species draft with an uncached fetch.                            *)
(*                                                                         *)
(* A raw observation is a Python dict: here a function whose DOMAIN is the *)
(* set of keys the dict has, so that `"lat" in obs`, obs["howMany"] and    *)
(* obs.get("howMany", 0) are modelled by what they do on a missing key.    *)
(***************************************************************************)
EXTENDS Integers, Sequences, FiniteSets, TLC

VARIABLES
    species_dict,      \* the record list the display functions read
    species_selected,  \* the species list handed to the display functions
    out,               \* what the last display function produced
    app,               \* the script the session runs: "project" or "main"
    remote,            \* the records the recent-observations endpoint holds
    remote_notable,    \* the records the notable-observations endpoint holds
    cache,             \* st.cache_data's entry for observed_US_cached
    requests,          \* HTTP requests sent to the recent-observations endpoint
    session_state,     \* st.session_state: a dict, empty when the session starts
    widgets,           \* the browser's state of the widgets drawn by the last pass
    region_code,       \* the text in the "Enter Region Code" input
    page,              \* what the last render pass showed in each tab
    chosen_zoom,       \* the value the user last set on the zoom slider, 0 if never
    maps_shown         \* how many passes have drawn the map (counted up to MaxCount)

view_vars == <<species_dict, species_selected, out>>

session_vars ==
    <<app, remote, remote_notable, cache, requests, session_state, widgets,
      region_code, page, chosen_zoom, maps_shown>>

vars == <<view_vars, session_vars>>

(***************************************************************************)
(* Bounds and input universes                                              *)
(***************************************************************************)
MaxRecords == 2        \* longest record list drawn as an input
MaxFeed == 2           \* longest record list an endpoint holds in a session
MaxCount == 2          \* the counters stop counting here

Species == {"Blue Jay", "Robin"}

\* str ordering of the species names ("Blue Jay" < "Robin")
SpeciesRank(s) == IF s = "Blue Jay" THEN 1 ELSE 2

\* obsDt strings as eBird sends them: date only, or date and time
ObsDtStrings == {"2024-05-01", "2024-05-01 00:00", "2024-05-02"}

HowManyValues == {2, 3}

AllFields == {"comName", "sciName", "locName", "obsDt", "howMany", "lat", "lng"}

FullRecords ==
    [comName : Species, sciName : {"sci"}, locName : {"loc"},
     obsDt : ObsDtStrings, howMany : HowManyValues, lat : {10}, lng : {20}]

Restrict(r, F) == [f \in F |-> r[f]]

\* records that vary in the fields the series and the aggregate read
SeriesRecords ==
    {Restrict(r, AllFields \ Missing) :
        r \in FullRecords, Missing \in SUBSET {"comName", "obsDt", "howMany"}}

SeqsUpTo(S, n) == UNION {[1..k -> S] : k \in 0..n}

SelectionLists == {<<"Robin">>, <<"Blue Jay">>, <<"Robin", "Blue Jay">>, <<"Blue Jay", "Robin">>}

(***************************************************************************)
(* Python and pandas helpers                                               *)
(***************************************************************************)
\* x in list
InList(x, s) == \E i \in 1..Len(s) : s[i] = x

\* dict.get(key, default)
get(obs, key, default) == IF key \in DOMAIN obs THEN obs[key] ELSE default

\* the dict has every one of the keys
HasKeys(obs, keys) == keys \subseteq DOMAIN obs

\* some dict of the list has no such key: obs[key] raises KeyError there
MissingKey(recs, key) == \E i \in 1..Len(recs) : key \notin DOMAIN recs[i]

\* pd.to_datetime on one obsDt string: the timestamp, as a day ordinal.
\* "2024-05-01" and "2024-05-01 00:00" are the same instant.
to_datetime(s) ==
    CASE s = "2024-05-01"       -> 1
      [] s = "2024-05-01 00:00" -> 1
      [] s = "2024-05-02"       -> 2

Raise(e) == [view |-> "exception", error |-> e]
NoData(msg) == [view |-> "nodata", error |-> msg]

\* [obs for obs in species_dict if obs["comName"] in species_selected]
species_data_of(recs, selected) ==
    SelectSeq(recs, LAMBDA obs : InList(obs.comName, selected))

\* [obs for obs in species_data if obs["comName"] == species]
species_data_filtered(recs, species) ==
    SelectSeq(recs, LAMBDA obs : obs.comName = species)

RECURSIVE Concat(_, _, _)
\* rows(selected[1]) \o rows(selected[2]) \o ...
Concat(rows(_), selected, i) ==
    IF i > Len(selected) THEN <<>>
    ELSE rows(selected[i]) \o Concat(rows, selected, i + 1)

Injective(p) == \A i, j \in DOMAIN p : p[i] = p[j] => i = j

\* DataFrame.sort_values(by="date") with the default kind="quicksort":
\* the rows in non-decreasing date order; rows with equal dates may come out
\* in any order (the default sort is not stable).
sort_values(df) ==
    LET n == Len(df)
        perms == {p \in [1..n -> 1..n] :
                     /\ Injective(p)
                     /\ \A i \in 1..(n - 1) : df[p[i]].date <= df[p[i + 1]].date}
    IN  {[i \in 1..n |-> df[p[i]]] : p \in perms}

(***************************************************************************)
(* project.py: display_line_plot                                           *)
(***************************************************************************)
line_combined_data(species_data, selected) ==
    LET rows(species) ==
            LET f == species_data_filtered(species_data, species)
            IN  [i \in 1..Len(f) |->
                    [species |-> species,
                     date |-> to_datetime(f[i].obsDt),
                     population |-> get(f[i], "howMany", 0)]]
    IN  Concat(rows, selected, 1)

\* df[df["species"] == species], as the (date, population) points plotted
line_series(df, species) ==
    LET rows == SelectSeq(df, LAMBDA r : r.species = species)
    IN  [i \in 1..Len(rows) |-> <<rows[i].date, rows[i].population>>]

\* display_line_plot giving up when any one of the selected species has no
\* record, instead of when none has
display_line_plot_any_empty(recs, selected) ==
    IF MissingKey(recs, "comName") THEN {Raise("KeyError: comName")}
    ELSE LET species_data == species_data_of(recs, selected)
         IN  IF \E i \in 1..Len(selected) :
                    species_data_filtered(species_data, selected[i]) = <<>>
             THEN {NoData("No data available for species")}
             ELSE IF MissingKey(species_data, "obsDt") THEN {Raise("KeyError: obsDt")}
             ELSE {[view |-> "rendered",
                    series |-> [i \in 1..Len(selected) |-> line_series(df, selected[i])]] :
                      df \in sort_values(line_combined_data(species_data, selected))}

\* the set of outcomes display_line_plot can have on these inputs
display_line_plot(recs, selected) ==
    IF MissingKey(recs, "comName") THEN {Raise("KeyError: comName")}
    ELSE LET species_data == species_data_of(recs, selected)
         IN  IF species_data = <<>> THEN {NoData("No data available for species")}
             ELSE IF MissingKey(species_data, "obsDt") THEN {Raise("KeyError: obsDt")}
             ELSE {[view |-> "rendered",
                    series |-> [i \in 1..Len(selected) |-> line_series(df, selected[i])]] :
                      df \in sort_values(line_combined_data(species_data, selected))}

(***************************************************************************)
(* project.py: display_bar_graph                                           *)
(***************************************************************************)
\* the rows of pd.DataFrame({"date": ..., "population": ..., "species": ...})
bar_rows(species_data, selected) ==
    LET rows(species) ==
            LET f == species_data_filtered(species_data, species)
            IN  [i \in 1..Len(f) |->
                    [date |-> to_datetime(f[i].obsDt),
                     population |-> get(f[i], "howMany", 0),
                     species |-> species]]
    IN  Concat(rows, selected, 1)

RECURSIVE SumPopulation(_, _)
\* Series.sum() of the population column from row i on
SumPopulation(rows, i) ==
    IF i > Len(rows) THEN 0 ELSE rows[i].population + SumPopulation(rows, i + 1)

\* the order groupby(sort=True) gives its keys: by date, then by species name
KeyBefore(a, b) ==
    \/ a[1] < b[1]
    \/ a[1] = b[1] /\ SpeciesRank(a[2]) < SpeciesRank(b[2])

RECURSIVE SortedKeys(_)
SortedKeys(keys) ==
    IF keys = {} THEN <<>>
    ELSE LET first == CHOOSE k \in keys : \A o \in keys \ {k} : KeyBefore(k, o)
         IN  <<first>> \o SortedKeys(keys \ {first})

\* group_row with .first() in place of .sum()
group_row_first(df, k) ==
    [date |-> k[1], species |-> k[2],
     population |->
         SelectSeq(df, LAMBDA r : r.date = k[1] /\ r.species = k[2])[1].population]

\* one row of the grouped frame: the key and the sum of its rows' populations
group_row(df, k) ==
    [date |-> k[1], species |-> k[2],
     population |-> SumPopulation(
         SelectSeq(df, LAMBDA r : r.date = k[1] /\ r.species = k[2]), 1)]

\* groupby_sum with a row for every date of the frame under every species
\* of the frame, 0 where the species has no observation on the date
groupby_sum_filled(df) ==
    LET rows == 1..Len(df)
        keys == SortedKeys({<<df[i].date, df[j].species>> : i \in rows, j \in rows})
    IN  [j \in 1..Len(keys) |-> group_row(df, keys[j])]

\* df.groupby(["date", "species"]).sum().reset_index()
groupby_sum(df) ==
    LET keys == SortedKeys({<<df[i].date, df[i].species>> : i \in 1..Len(df)})
    IN  [j \in 1..Len(keys) |-> group_row(df, keys[j])]

\* the bars drawn: per selected species, its rows of the grouped frame
bar_bars(grouped_df, selected) ==
    LET rows(species) == SelectSeq(grouped_df, LAMBDA r : r.species = species)
    IN  Concat(rows, selected, 1)

display_bar_graph(recs, selected) ==
    IF MissingKey(recs, "comName") THEN Raise("KeyError: comName")
    ELSE LET species_data == species_data_of(recs, selected)
         IN  IF species_data = <<>> THEN NoData("No data available for species")
             ELSE IF MissingKey(species_data, "obsDt") THEN Raise("KeyError: obsDt")
             ELSE LET grouped_df == groupby_sum(bar_rows(species_data, selected))
                  IN  [view |-> "rendered",
                       grouped_df |-> grouped_df,
                       bars |-> bar_bars(grouped_df, selected)]

(***************************************************************************)
(* project.py: display_table                                               *)
(***************************************************************************)
\* column_mapping, in the order the dict literal lists its keys
column_mapping ==
    << <<"speciesCode", "Species Code">>, <<"comName", "Common Name">>,
       <<"sciName", "Scientific Name">>, <<"locID", "Location ID">>,
       <<"locName", "Location Observed">>, <<"obsDt", "Date Observed">>,
       <<"howMany", "Population">>, <<"lat", "Latitude">>, <<"lng", "Longitude">>,
       <<"valid", "Valid Observation">>, <<"reviewed", "Reviewed Observation">>,
       <<"private", "Location Private">>, <<"subID", "Sub ID">> >>

\* the display_columns of the simplified view
simplified_columns ==
    <<"Common Name", "Scientific Name", "Location Observed", "Population",
      "Latitude", "Longitude">>

\* pd.DataFrame(list of dicts).columns: every key some dict has
df_columns(recs) == UNION {DOMAIN recs[i] : i \in 1..Len(recs)}

\* [col for col in column_mapping.keys() if col in filtered_df.columns]
existing_columns(columns) ==
    LET kept == SelectSeq(column_mapping, LAMBDA kv : kv[1] \in columns)
    IN  [i \in 1..Len(kept) |-> kept[i][1]]

\* column_mapping[col]
display_name(col) ==
    LET i == CHOOSE j \in 1..Len(column_mapping) : column_mapping[j][1] = col
    IN  column_mapping[i][2]

\* filtered_df.rename(columns=...).columns: mapped names for the existing
\* columns, the other columns as they were
renamed_columns(columns, existing) ==
    {display_name(existing[i]) : i \in 1..Len(existing)}
        \cup {c \in columns : ~InList(c, existing)}

\* df["comName"].unique(): the options of the "Filter by species:" multiselect
filter_options(recs, selected) ==
    IF MissingKey(recs, "comName") THEN {}
    ELSE LET species_data == species_data_of(recs, selected)
         IN  {species_data[i].comName : i \in 1..Len(species_data)}

display_table(recs, selected, selection_choice, species_filter, simplify_data) ==
    IF MissingKey(recs, "comName") THEN Raise("KeyError: comName")
    ELSE LET species_data == species_data_of(recs, selected)
             columns == df_columns(species_data)
             filtered_df ==
                 IF species_filter # {}
                 THEN SelectSeq(species_data, LAMBDA obs : obs.comName \in species_filter)
                 ELSE species_data
             existing == existing_columns(columns)
             display_columns ==
                 IF simplify_data THEN simplified_columns
                 ELSE [i \in 1..Len(existing) |-> display_name(existing[i])]
         IN  IF species_data = <<>> THEN NoData("No data available for species")
             ELSE IF selection_choice = "Raw Data"
                  THEN [view |-> "rendered", mode |-> "raw",
                        columns |-> columns, rows |-> Len(species_data)]
             ELSE IF existing = <<>> THEN NoData("No relevant data available to display.")
             ELSE IF ~({display_columns[i] : i \in DOMAIN display_columns}
                          \subseteq renamed_columns(columns, existing))
                  THEN Raise("KeyError: not in index")
             ELSE [view |-> "rendered", mode |-> "specific",
                   columns |-> display_columns, rows |-> Len(filtered_df)]

(***************************************************************************)
(* project.py: the sidebar's species list                                  *)
(***************************************************************************)
RECURSIVE SortedNames(_)
SortedNames(names) ==
    IF names = {} THEN <<>>
    ELSE LET first == CHOOSE n \in names :
                 \A o \in names \ {n} : SpeciesRank(n) < SpeciesRank(o)
         IN  <<first>> \o SortedNames(names \ {first})

\* list({i["comName"] for i in species_dict}), sorted
species_list(recs) ==
    IF MissingKey(recs, "comName") THEN Raise("KeyError: comName")
    ELSE [view |-> "rendered",
          options |-> SortedNames({recs[i].comName : i \in 1..Len(recs)})]

(***************************************************************************)
(* The fetch functions                                                     *)
(***************************************************************************)
\* what requests.get can come back with: a status code, and whether the body
\* decodes as JSON
Responses ==
    {[status_code |-> 200, json |-> TRUE], [status_code |-> 200, json |-> FALSE],
     [status_code |-> 500, json |-> FALSE]}

\* the three fetch functions share one body: the decoded records on a 200
\* with a JSON body; otherwise st.error(...) and an empty list
fetch_body(response, data) ==
    IF response.status_code = 200
    THEN IF response.json
         THEN [records |-> data, error |-> ""]
         ELSE [records |-> <<>>, error |-> "Error decoding API response."]
    ELSE [records |-> <<>>, error |-> "Error: Received status code"]

\* main.py
observed_US(response, data) == fetch_body(response, data)

\* observed_US_cached returning the decoded body whatever the status code
observed_US_cached_unchecked(response, data) ==
    [records |-> data, error |-> fetch_body(response, data).error]

\* project.py, the body under @st.cache_data
observed_US_cached(response, data) == fetch_body(response, data)

\* project.py
fetch_notable_observations(response, data) == fetch_body(response, data)

EmptyCache == [filled |-> FALSE]

\* a call that runs the body every time and stores nothing
cached_call_uncached(entry, response, data) ==
    LET r == observed_US_cached(response, data)
    IN  [records |-> r.records, error |-> r.error, requested |-> TRUE,
         cache |-> entry]

\* @st.cache_data: the first call runs the body and stores what it returned
\* (the st.error it showed is replayed with it); later calls return the entry
cached_call(entry, response, data) ==
    IF entry.filled
    THEN [records |-> entry.records, error |-> entry.error, requested |-> FALSE,
          cache |-> entry]
    ELSE LET r == observed_US_cached(response, data)
         IN  [records |-> r.records, error |-> r.error, requested |-> TRUE,
              cache |-> [filled |-> TRUE, records |-> r.records, error |-> r.error]]

(***************************************************************************)
(* Streamlit widgets and session state                                     *)
(***************************************************************************)
MinZoom == 3
MaxZoom == 10
DefaultZoom == 3
DefaultPinColor == "#FF0000"
PinColors == {"#FF0000", "#00FF00"}

\* the slider positions the user moves to: both ends and one between
ZoomChoices == {MinZoom, MinZoom + 1, MaxZoom}

NoWidget == [exists |-> FALSE]
Widget(default, value) == [exists |-> TRUE, default |-> default, value |-> value]

\* st.slider(..., value=default) and st.color_picker(label, default) without a
\* key: the widget is identified by its arguments, so the browser's value is
\* returned only if the widget was drawn with the same default by the last
\* pass; a widget with another default is a new widget and returns its default
widget_value(w, default) ==
    IF w.exists /\ w.default = default THEN w.value ELSE default

\* st.session_state.key = value
Put(d, key, value) ==
    [k \in DOMAIN d \cup {key} |-> IF k = key THEN value ELSE d[k]]

NewSession == [k \in {} |-> 0]

(***************************************************************************)
(* project.py: display_map                                                 *)
(***************************************************************************)
RECURSIVE SumOf(_, _, _)
SumOf(recs, key, i) ==
    IF i > Len(recs) THEN 0 ELSE recs[i][key] + SumOf(recs, key, i + 1)

RECURSIVE GCD(_, _)
GCD(a, b) == IF b = 0 THEN a ELSE GCD(b, a % b)

\* df[column].mean(), as the fraction <<numerator, denominator>> in lowest terms
Mean(recs, key) ==
    LET total == SumOf(recs, key, 1)
        g == GCD(total, Len(recs))
    IN  <<total \div g, Len(recs) \div g>>

\* the observations the information box walks through, in its order
info_observations(species_data, selected) ==
    LET rows(species) == species_data_filtered(species_data, species)
    IN  Concat(rows, selected, 1)

\* the KeyError of the information box, "" when it raises none
info_error(species_data, selected) ==
    LET obs_list == info_observations(species_data, selected)
        keys == {"locName", "lat", "lng", "obsDt"}
        bad == {i \in 1..Len(obs_list) : ~HasKeys(obs_list[i], keys)}
    IN  IF bad = {} THEN ""
        ELSE LET first == obs_list[CHOOSE i \in bad : \A j \in bad : i <= j]
             IN  IF "locName" \notin DOMAIN first THEN "KeyError: locName"
                 ELSE IF "lat" \notin DOMAIN first THEN "KeyError: lat"
                 ELSE IF "lng" \notin DOMAIN first THEN "KeyError: lng"
                 ELSE "KeyError: obsDt"

\* display_map centring the map on the selected species in every pass
display_map_recentered(recs, selected, pin_color, ss, slider) ==
    LET species_data == species_data_of(recs, selected)
        locations == SelectSeq(species_data, LAMBDA obs : HasKeys(obs, {"lat", "lng"}))
        center == <<Mean(locations, "lat"), Mean(locations, "lng")>>
        stored == IF "zoom_level" \in DOMAIN ss THEN ss.zoom_level ELSE DefaultZoom
        zoom_level == widget_value(slider, stored)
        err == info_error(species_data, selected)
        left(result) == [result |-> result, session_state |-> ss, slider |-> NoWidget]
    IN  IF MissingKey(recs, "comName") THEN left(Raise("KeyError: comName"))
        ELSE IF species_data = <<>> THEN left(NoData("No data available for species"))
        ELSE IF MissingKey(locations, "locName") THEN left(Raise("KeyError: locName"))
        ELSE IF locations = <<>>
             THEN left(NoData("No location data available for selected species."))
        ELSE [result |-> [view |-> IF err = "" THEN "rendered" ELSE "exception",
                          error |-> err,
                          zoom |-> zoom_level,
                          center |-> center,
                          color |-> pin_color,
                          points |-> Len(locations)],
              session_state |-> Put(Put(ss, "map_center", center),
                                    "zoom_level", zoom_level),
              slider |-> Widget(stored, zoom_level)]

\* display_map(species_selected, pin_color) with the session state and the
\* browser's zoom slider it finds: what it shows, and the session state and
\* the slider it leaves.  (The pin size slider only sizes the markers.)
display_map(recs, selected, pin_color, ss, slider) ==
    LET species_data == species_data_of(recs, selected)
        locations == SelectSeq(species_data, LAMBDA obs : HasKeys(obs, {"lat", "lng"}))
        center == IF "map_center" \in DOMAIN ss THEN ss.map_center
                  ELSE <<Mean(locations, "lat"), Mean(locations, "lng")>>
        stored == IF "zoom_level" \in DOMAIN ss THEN ss.zoom_level ELSE DefaultZoom
        zoom_level == widget_value(slider, stored)
        err == info_error(species_data, selected)
        left(result) == [result |-> result, session_state |-> ss, slider |-> NoWidget]
    IN  IF MissingKey(recs, "comName") THEN left(Raise("KeyError: comName"))
        ELSE IF species_data = <<>> THEN left(NoData("No data available for species"))
        ELSE IF MissingKey(locations, "locName") THEN left(Raise("KeyError: locName"))
        ELSE IF locations = <<>>
             THEN left(NoData("No location data available for selected species."))
        ELSE [result |-> [view |-> IF err = "" THEN "rendered" ELSE "exception",
                          error |-> err,
                          zoom |-> zoom_level,
                          center |-> center,
                          color |-> pin_color,
                          points |-> Len(locations)],
              session_state |-> Put(Put(ss, "map_center", center),
                                    "zoom_level", zoom_level),
              slider |-> Widget(stored, zoom_level)]

(***************************************************************************)
(* project.py: display_notable_observations                                *)
(***************************************************************************)
notable_columns == {"comName", "locName", "obsDt", "howMany", "lat", "lng"}

\* the tab's outcome for the region code typed and the endpoint's answer
display_notable_observations(region, response, data) ==
    IF region = "" THEN NoData("Please enter a valid region code.")
    ELSE LET notable_data == fetch_notable_observations(response, data).records
         IN  IF notable_data = <<>>
             THEN NoData("No data available for the selected region.")
             ELSE IF ~(notable_columns \subseteq df_columns(notable_data))
                  THEN Raise("KeyError: not in index")
             ELSE [view |-> "rendered", rows |-> Len(notable_data)]

(***************************************************************************)
(* main.py: the line plot tab and the bar graph tab                        *)
(***************************************************************************)
\* [obs[key] for obs in species_dict if obs["comName"] == species]
main_column(recs, species, key) ==
    LET f == species_data_filtered(recs, species)
    IN  [i \in 1..Len(f) |-> f[i][key]]

\* Both tabs run the same statements on their own selectbox value: look the
\* species up with next(), build dates and populations in the fetched order
\* with obs["obsDt"] and obs["howMany"], then call
\* pd.to_datetime(dates).dt.strftime(...) before plotting.  pd.to_datetime of
\* a list is a DatetimeIndex, which has no .dt accessor, so the call raises
\* AttributeError and nothing is plotted; the lists built until then are
\* kept in the result.
main_plot_tab(recs, species) ==
    IF species = "" THEN NoData("")
    ELSE IF MissingKey(recs, "comName") THEN Raise("KeyError: comName")
    ELSE IF species_data_filtered(recs, species) = <<>> THEN NoData("Species not found.")
    ELSE IF MissingKey(species_data_filtered(recs, species), "obsDt")
         THEN Raise("KeyError: obsDt")
    ELSE IF MissingKey(species_data_filtered(recs, species), "howMany")
         THEN Raise("KeyError: howMany")
    ELSE [view |-> "exception", error |-> "AttributeError: dt",
          dates |-> main_column(recs, species, "obsDt"),
          populations |-> main_column(recs, species, "howMany")]

main_line_plot_tab(recs, species) == main_plot_tab(recs, species)

main_bar_graph_tab(recs, species) == main_plot_tab(recs, species)

(***************************************************************************)
(* main.py: the species list, the map tab and the table tab                *)
(***************************************************************************)
\* species_list = [i["comName"] for i in species_dict], with "" put first
main_species_list(recs) ==
    IF MissingKey(recs, "comName") THEN Raise("KeyError: comName")
    ELSE [view |-> "rendered",
          options |-> <<"">> \o [i \in 1..Len(recs) |-> recs[i].comName]]

\* the map tab: nothing until "Show Locations" is clicked, then the pins of
\* the chosen species around their mean position
main_map_tab(recs, species, clicked) ==
    LET species_data == species_data_filtered(recs, species)
        locations == SelectSeq(species_data, LAMBDA obs : HasKeys(obs, {"lat", "lng"}))
    IN  IF ~clicked THEN NoData("")
        ELSE IF species = "" THEN NoData("Please select a species.")
        ELSE IF locations = <<>>
             THEN NoData("No location data available for this species.")
        ELSE [view |-> "rendered", zoom |-> 6, points |-> Len(locations),
              center |-> <<Mean(locations, "lat"), Mean(locations, "lng")>>]

\* the table tab: a message for an empty frame; otherwise the frame filtered
\* by species and by pd.to_datetime(obsDt) >= start_date, a comparison of
\* timestamps with datetime.date values that some pandas versions carry out
\* and others reject with TypeError
main_table_tab(recs) ==
    IF recs = <<>> THEN {NoData("No data available to display in the table.")}
    ELSE IF "obsDt" \notin df_columns(recs) THEN {Raise("KeyError: obsDt")}
    ELSE {[view |-> "rendered", rows |-> Len(recs)],
          Raise("TypeError: Invalid comparison")}

(***************************************************************************)
(* A session: render passes of one script, each started by the page being  *)
(* loaded or by the user changing one widget                               *)
(***************************************************************************)
\* no display function has been applied
Idle == [fn |-> "none"]

Unreached == [view |-> "unreached"]

\* a tab in which the pass drew nothing
Blank == NoData("")

NoWidgets ==
    [zoom |-> NoWidget, color |-> NoWidget, multiselect |-> FALSE, region |-> FALSE,
     selectboxes |-> FALSE, map_species |-> "", plot_species |-> "", bar_species |-> ""]

\* no request was sent
NoRequest == [made |-> FALSE]

\* a request was sent and this came back
Request(response) ==
    [made |-> TRUE, status_code |-> response.status_code, json |-> response.json]

BlankPage ==
    [script |-> "not run", request |-> NoRequest, notable_request |-> NoRequest,
     fetch_error |-> "", notable_error |-> "", options |-> <<>>,
     map |-> Unreached, line |-> Unreached, bar |-> Unreached, table |-> Unreached,
     notable |-> Unreached]

\* the records an endpoint can hold: complete ones of two species at two
\* places, one without coordinates, one without a name
FeedRecords ==
    LET base == [comName |-> "Robin", sciName |-> "sci", locName |-> "loc",
                 obsDt |-> "2024-05-01", howMany |-> 2, lat |-> 10, lng |-> 20]
    IN  {base,
         [base EXCEPT !.comName = "Blue Jay", !.lat = 30],
         Restrict(base, AllFields \ {"lat", "lng"}),
         Restrict(base, AllFields \ {"comName"})}

NotableFeeds ==
    LET base == [comName |-> "Robin", sciName |-> "sci", locName |-> "loc",
                 obsDt |-> "2024-05-01", howMany |-> 2, lat |-> 10, lng |-> 20]
    IN  {<<base>>, <<Restrict(base, AllFields \ {"howMany"})>>}

Min(a, b) == IF a < b THEN a ELSE b

\* the lists a multiselect over these options can hold
ListsOver(options) ==
    {l \in {<<>>} \cup SelectionLists : \A i \in 1..Len(l) : InList(l[i], options)}

Init ==
    /\ app \in {"project", "main"}
    /\ remote \in SeqsUpTo(FeedRecords, MaxFeed)
    /\ remote_notable \in NotableFeeds
    /\ cache = EmptyCache
    /\ requests = 0
    /\ session_state = NewSession
    /\ widgets = NoWidgets
    /\ region_code = ""
    /\ page = BlankPage
    /\ chosen_zoom = 0
    /\ maps_shown = 0
    /\ species_dict = <<>>
    /\ species_selected = <<>>
    /\ out = Idle

\* the answers that make a difference to a call that reads the response only
\* when guard holds
Answers(guard) == IF guard THEN Responses ELSE {CHOOSE r \in Responses : TRUE}

anyException(views) == \E i \in 1..Len(views) : views[i].view = "exception"

\* One run of project.py from top to bottom.  selected, w and region are the
\* browser's widget values when the pass starts, chosen the zoom the user last
\* set.  An uncaught exception ends the pass: the tabs after it are not drawn.
ProjectPass(selected, w, region, chosen) ==
    \E response \in Answers(~cache.filled) :
    \E fetched \in {cached_call(cache, response, remote)} :
    \E listing \in {species_list(fetched.records)} :
        LET recs == fetched.records
            listed == listing.view = "rendered"
            options == IF listed THEN listing.options ELSE <<>>
            \* the multiselect keeps its value while its options are the same
            sel == IF listed /\ w.multiselect /\ options = page.options
                   THEN selected ELSE <<>>
            tabs == listed /\ sel # <<>>
            \* lines 419-426: the pin colour and its picker
            ss0 == IF "pin_color" \in DOMAIN session_state THEN session_state
                   ELSE Put(session_state, "pin_color", DefaultPinColor)
            pin_color == widget_value(w.color, ss0.pin_color)
            ss1 == Put(ss0, "pin_color", pin_color)
        IN  \E m \in {display_map(recs, sel, pin_color, ss1, w.zoom)} :
            \E mapV \in {IF ~listed THEN Unreached ELSE IF tabs THEN m.result ELSE Blank} :
            \E lineV \in (IF ~listed \/ anyException(<<mapV>>) THEN {Unreached}
                          ELSE IF tabs THEN display_line_plot(recs, sel) ELSE {Blank}) :
            \E barV \in {IF ~listed \/ anyException(<<mapV, lineV>>) THEN Unreached
                         ELSE IF tabs THEN display_bar_graph(recs, sel) ELSE Blank} :
            \E tableV \in {IF ~listed \/ anyException(<<mapV, lineV, barV>>) THEN Unreached
                           ELSE IF tabs
                                THEN display_table(recs, sel, "Specific Data", {}, FALSE)
                                ELSE Blank} :
            \E reached \in {listed /\ ~anyException(<<mapV, lineV, barV, tableV>>)} :
            \E notable_response \in Answers(reached /\ region # "") :
            \E notableV \in {IF ~reached THEN Unreached
                             ELSE display_notable_observations(
                                      region, notable_response, remote_notable)} :
                /\ cache' = fetched.cache
                /\ requests' = IF fetched.requested
                               THEN Min(requests + 1, MaxCount) ELSE requests
                /\ species_dict' = recs
                /\ species_selected' = sel
                /\ session_state' = IF tabs THEN m.session_state ELSE session_state
                /\ widgets' = [NoWidgets EXCEPT
                                  !.multiselect = listed,
                                  !.color = IF tabs THEN Widget(ss0.pin_color, pin_color)
                                            ELSE NoWidget,
                                  !.zoom = IF tabs THEN m.slider ELSE NoWidget,
                                  !.region = reached]
                /\ region_code' = IF reached THEN region ELSE ""
                /\ page' = [script |-> IF reached /\ notableV.view # "exception"
                                       THEN "done" ELSE "exception",
                            request |-> IF fetched.requested THEN Request(response)
                                        ELSE NoRequest,
                            notable_request |-> IF reached /\ region # ""
                                                THEN Request(notable_response)
                                                ELSE NoRequest,
                            fetch_error |-> fetched.error,
                            notable_error |->
                                IF reached /\ region # ""
                                THEN fetch_notable_observations(
                                         notable_response, remote_notable).error
                                ELSE "",
                            options |-> options,
                            map |-> mapV, line |-> lineV, bar |-> barV,
                            table |-> tableV, notable |-> notableV]
                /\ chosen_zoom' = chosen
                /\ maps_shown' = IF tabs /\ m.slider.exists
                                 THEN Min(maps_shown + 1, MaxCount) ELSE maps_shown
                /\ UNCHANGED <<app, remote, remote_notable, out>>

\* One run of main.py from top to bottom.  The three selectboxes keep their
\* values while their options are the same; clicked says that the pass was
\* started by the "Show Locations" button.  (The sidebar's widgets only echo
\* their own values.)
MainPass(map_species, plot_species, bar_species, clicked) ==
    \E response \in Responses :
    \E fetched \in {observed_US(response, remote)} :
    \E listing \in {main_species_list(fetched.records)} :
        LET recs == fetched.records
            listed == listing.view = "rendered"
            options == IF listed THEN listing.options ELSE <<>>
            same == listed /\ options = page.options
            map_sp == IF same THEN map_species ELSE ""
            plot_sp == IF same THEN plot_species ELSE ""
            bar_sp == IF same THEN bar_species ELSE ""
        IN  \E mapV \in {IF ~listed THEN Unreached
                         ELSE main_map_tab(recs, map_sp, clicked)} :
            \E lineV \in {IF ~listed THEN Unreached
                          ELSE main_line_plot_tab(recs, plot_sp)} :
            \E barV \in {IF ~listed \/ anyException(<<lineV>>) THEN Unreached
                         ELSE main_bar_graph_tab(recs, bar_sp)} :
            \E tableV \in (IF ~listed \/ anyException(<<lineV, barV>>) THEN {Unreached}
                           ELSE main_table_tab(recs)) :
                /\ requests' = Min(requests + 1, MaxCount)
                /\ species_dict' = recs
                /\ widgets' = [NoWidgets EXCEPT
                                  !.selectboxes = listed,
                                  !.map_species = map_sp,
                                  !.plot_species = plot_sp,
                                  !.bar_species = IF barV = Unreached THEN "" ELSE bar_sp]
                /\ page' = [script |-> IF listed /\ ~anyException(<<lineV, barV, tableV>>)
                                       THEN "done" ELSE "exception",
                            request |-> Request(response),
                            notable_request |-> NoRequest,
                            fetch_error |-> fetched.error,
                            notable_error |-> "",
                            options |-> options,
                            map |-> mapV, line |-> lineV, bar |-> barV,
                            table |-> tableV, notable |-> Unreached]
                /\ UNCHANGED <<app, remote, remote_notable, out, cache, species_selected,
                               session_state, region_code, chosen_zoom, maps_shown>>

\* the page is loaded, or rerun with no widget changed
Load ==
    /\ app = "project"
    /\ ProjectPass(species_selected, widgets, region_code, chosen_zoom)

\* the user changes the sidebar's species multiselect
SelectSpecies ==
    /\ app = "project"
    /\ widgets.multiselect
    /\ \E l \in ListsOver(page.options) \ {species_selected} :
          ProjectPass(l, widgets, region_code, chosen_zoom)

\* the user moves the zoom slider
MoveZoomSlider ==
    /\ app = "project"
    /\ widgets.zoom.exists
    /\ \E z \in ZoomChoices \ {widgets.zoom.value} :
          ProjectPass(species_selected, [widgets EXCEPT !.zoom.value = z],
                      region_code, z)

\* the user picks another pin colour
PickPinColor ==
    /\ app = "project"
    /\ widgets.color.exists
    /\ \E c \in PinColors \ {widgets.color.value} :
          ProjectPass(species_selected, [widgets EXCEPT !.color.value = c],
                      region_code, chosen_zoom)

\* the user types a region code in the Notable Observations tab
EnterRegionCode ==
    /\ app = "project"
    /\ widgets.region
    /\ \E code \in {"", "US"} \ {region_code} :
          ProjectPass(species_selected, widgets, code, chosen_zoom)

\* main.py is loaded, or rerun with no widget changed
MainLoad ==
    /\ app = "main"
    /\ MainPass(widgets.map_species, widgets.plot_species, widgets.bar_species, FALSE)

\* the user clicks "Show Locations"
ClickShowLocations ==
    /\ app = "main"
    /\ widgets.selectboxes
    /\ MainPass(widgets.map_species, widgets.plot_species, widgets.bar_species, TRUE)

\* the user picks a species in the map tab's selectbox
SelectMapSpecies ==
    /\ app = "main"
    /\ widgets.selectboxes
    /\ \E i \in 1..Len(page.options) :
          /\ page.options[i] # widgets.map_species
          /\ MainPass(page.options[i], widgets.plot_species, widgets.bar_species, FALSE)

\* the user picks a species in the line plot tab's selectbox
SelectPlotSpecies ==
    /\ app = "main"
    /\ widgets.selectboxes
    /\ \E i \in 1..Len(page.options) :
          /\ page.options[i] # widgets.plot_species
          /\ MainPass(widgets.map_species, page.options[i], widgets.bar_species, FALSE)

\* the user picks a species in the bar graph tab's selectbox
SelectBarSpecies ==
    /\ app = "main"
    /\ page.bar.view # "unreached"
    /\ \E i \in 1..Len(page.options) :
          /\ page.options[i] # widgets.bar_species
          /\ MainPass(widgets.map_species, widgets.plot_species, page.options[i], FALSE)

\* time passes: the oldest record leaves the endpoint's window of recent
\* observations
FeedChanges ==
    /\ remote # <<>>
    /\ remote' = Tail(remote)
    /\ UNCHANGED <<view_vars, app, remote_notable, cache, requests, session_state,
                   widgets, region_code, page, chosen_zoom, maps_shown>>

Next ==
    \/ FeedChanges
    \/ Load
    \/ SelectSpecies
    \/ MoveZoomSlider
    \/ PickPinColor
    \/ EnterRegionCode
    \/ MainLoad
    \/ ClickShowLocations
    \/ SelectMapSpecies
    \/ SelectPlotSpecies
    \/ SelectBarSpecies

Spec == Init /\ [][Next]_vars

(***************************************************************************)
(* The display functions applied to drawn inputs                           *)
(***************************************************************************)
\* records that vary in the columns the table shows
TableRecords ==
    {Restrict(r, AllFields \ Missing) :
        r \in {f \in FullRecords : f.obsDt = "2024-05-01" /\ f.howMany = 2},
        Missing \in {{}, {"sciName"}, {"locName"}, {"howMany"}, {"lat"}, {"lng"},
                     {"lat", "lng"}}}

InitViews ==
    /\ species_dict \in SeqsUpTo(SeriesRecords, MaxRecords)
                            \cup SeqsUpTo(TableRecords, MaxRecords)
    /\ species_selected \in SelectionLists
    /\ out = Idle
    /\ app = "none"
    /\ remote = <<>>
    /\ remote_notable = <<>>
    /\ cache = EmptyCache
    /\ requests = 0
    /\ session_state = NewSession
    /\ widgets = NoWidgets
    /\ region_code = ""
    /\ page = BlankPage
    /\ chosen_zoom = 0
    /\ maps_shown = 0

CallSpeciesList ==
    /\ out = Idle
    /\ out' = [fn |-> "species_list", result |-> species_list(species_dict)]
    /\ UNCHANGED <<species_dict, species_selected, session_vars>>

CallLinePlot ==
    /\ out = Idle
    /\ \E r \in display_line_plot(species_dict, species_selected) :
          out' = [fn |-> "display_line_plot", result |-> r]
    /\ UNCHANGED <<species_dict, species_selected, session_vars>>

CallBarGraph ==
    /\ out = Idle
    /\ out' = [fn |-> "display_bar_graph",
               result |-> display_bar_graph(species_dict, species_selected)]
    /\ UNCHANGED <<species_dict, species_selected, session_vars>>

CallTable ==
    /\ out = Idle
    /\ \E selection_choice \in {"Specific Data", "Raw Data"},
          species_filter \in SUBSET filter_options(species_dict, species_selected),
          simplify_data \in BOOLEAN :
          out' = [fn |-> "display_table",
                  selection_choice |-> selection_choice,
                  species_filter |-> species_filter,
                  simplify_data |-> simplify_data,
                  result |-> display_table(species_dict, species_selected,
                                           selection_choice, species_filter,
                                           simplify_data)]
    /\ UNCHANGED <<species_dict, species_selected, session_vars>>

\* main.py's tabs take one species from a selectbox
CallMainLinePlot ==
    /\ out = Idle
    /\ Len(species_selected) = 1
    /\ out' = [fn |-> "main_line_plot_tab",
               result |-> main_line_plot_tab(species_dict, species_selected[1])]
    /\ UNCHANGED <<species_dict, species_selected, session_vars>>

CallMainBarGraph ==
    /\ out = Idle
    /\ Len(species_selected) = 1
    /\ out' = [fn |-> "main_bar_graph_tab",
               result |-> main_bar_graph_tab(species_dict, species_selected[1])]
    /\ UNCHANGED <<species_dict, species_selected, session_vars>>

NextViews ==
    \/ CallSpeciesList
    \/ CallLinePlot
    \/ CallBarGraph
    \/ CallTable
    \/ CallMainLinePlot
    \/ CallMainBarGraph

SpecViews == InitViews /\ [][NextViews]_vars

(***************************************************************************)
(* What the claims about the display functions speak of                    *)
(***************************************************************************)
\* the records a normalizer would keep: those with a name and a date
Normalized(recs) == SelectSeq(recs, LAMBDA obs : HasKeys(obs, {"comName", "obsDt"}))

WellFormed(recs) == Normalized(recs) = recs

Complete(recs) == \A i \in 1..Len(recs) : HasKeys(recs[i], {"comName", "obsDt", "howMany"})

\* the fetched records of one species, in fetched order
RecordsOf(recs, species) ==
    SelectSeq(recs, LAMBDA obs : "comName" \in DOMAIN obs /\ obs.comName = species)

\* the fetched records of the requested species
Matching(recs, selected) ==
    SelectSeq(recs, LAMBDA obs : "comName" \in DOMAIN obs /\ InList(obs.comName, selected))

\* the population a record stands for: howMany, 0 when it has none
PopulationOf(obs) == IF "howMany" \in DOMAIN obs THEN obs.howMany ELSE 0

\* the (date, population) point a record stands for
PointOf(obs) == <<to_datetime(obs.obsDt), PopulationOf(obs)>>

RECURSIVE TotalPopulation(_)
TotalPopulation(recs) ==
    IF recs = <<>> THEN 0 ELSE PopulationOf(Head(recs)) + TotalPopulation(Tail(recs))

\* how often x occurs in the sequence
Count(seq, x) == Cardinality({i \in 1..Len(seq) : seq[i] = x})

\* two sequences hold the same elements the same number of times
SameBag(a, b) ==
    /\ Len(a) = Len(b)
    /\ \A i \in 1..Len(a) : Count(a, a[i]) = Count(b, a[i])

SortedByDate(points) ==
    \A i \in 1..(Len(points) - 1) : points[i][1] <= points[i + 1][1]

PointsOf(recs) == [i \in 1..Len(recs) |-> PointOf(recs[i])]

RECURSIVE InsertByDate(_, _)
\* p put behind every point of the sorted sequence that is not later than it
InsertByDate(sorted, p) ==
    IF sorted = <<>> \/ p[1] < Head(sorted)[1] THEN <<p>> \o sorted
    ELSE <<Head(sorted)>> \o InsertByDate(Tail(sorted), p)

RECURSIVE StableSorted(_, _)
\* the points sorted by date, ties in their original order
StableSorted(points, i) ==
    IF i = 0 THEN <<>> ELSE InsertByDate(StableSorted(points, i - 1), points[i])

LineRan == out.fn = "display_line_plot"
BarRan == out.fn = "display_bar_graph"
TableRan == out.fn = "display_table"
MainLineRan == out.fn = "main_line_plot_tab"
MainBarRan == out.fn = "main_bar_graph_tab"
Rendered == out.result.view = "rendered"
Failed == out.result.view = "exception"

\* --- display_line_plot alone (project.py) ---------------------------------
\* Whenever display_line_plot plots, every species' series is sorted by date
\* and holds one point per fetched record of that species.
LinePlotSeriesSortedComplete ==
    (LineRan /\ Rendered) =>
        \A i \in 1..Len(species_selected) :
            /\ SortedByDate(out.result.series[i])
            /\ SameBag(out.result.series[i],
                       PointsOf(RecordsOf(species_dict, species_selected[i])))

\* C2: a raw record lacking comName or obsDt is silently dropped: the species
\* list, the line plot and the bar graph come out as they do for the record
\* list without it, and none of them fails.
C2_MalformedRecordsDropped ==
    /\ out.fn = "species_list" =>
          out.result = species_list(Normalized(species_dict))
    /\ LineRan =>
          out.result \in display_line_plot(Normalized(species_dict), species_selected)
    /\ BarRan =>
          out.result = display_bar_graph(Normalized(species_dict), species_selected)

\* C3: where a record of a selected species has no howMany, the line plot
\* and the bar graph use population 0 for it: no KeyError for howMany, the
\* series holds the record's point with population 0, and each bar is the sum
\* of its records' populations with 0 for the absent ones.
C3_AbsentHowManyIsZero ==
    WellFormed(species_dict) =>
        /\ (LineRan \/ BarRan \/ MainLineRan \/ MainBarRan) =>
              ~(Failed /\ out.result.error = "KeyError: howMany")
        /\ (LineRan /\ Rendered) =>
              \A i \in 1..Len(species_selected) :
                  SameBag(out.result.series[i],
                          PointsOf(RecordsOf(species_dict, species_selected[i])))
        /\ (BarRan /\ Rendered) =>
              \A j \in 1..Len(out.result.grouped_df) :
                  LET row == out.result.grouped_df[j]
                  IN  row.population = TotalPopulation(
                          SelectSeq(RecordsOf(species_dict, row.species),
                                    LAMBDA obs : to_datetime(obs.obsDt) = row.date))

\* the series main.py's line plot tab hands to ax.plot
MainSeries ==
    [i \in 1..Len(out.result.dates) |->
        <<to_datetime(out.result.dates[i]), out.result.populations[i]>>]

\* C4: the series plotted for a requested species is sorted non-decreasing by
\* date and holds exactly one (date, population) point per matching record.
C4_SeriesSortedOnePointPerRecord ==
    Complete(species_dict) =>
        /\ (LineRan /\ Rendered) =>
              \A i \in 1..Len(species_selected) :
                  /\ SortedByDate(out.result.series[i])
                  /\ SameBag(out.result.series[i],
                             PointsOf(RecordsOf(species_dict, species_selected[i])))
        /\ (MainLineRan /\ RecordsOf(species_dict, species_selected[1]) # <<>>) =>
              /\ SortedByDate(MainSeries)
              /\ SameBag(MainSeries,
                         PointsOf(RecordsOf(species_dict, species_selected[1])))

\* C5: the date sort is stable: records of one species with the same date
\* keep, in the series, the order they have in the fetched list.
C5_DateSortIsStable ==
    (LineRan /\ Rendered) =>
        \A i \in 1..Len(species_selected) :
            LET points == PointsOf(RecordsOf(species_dict, species_selected[i]))
            IN  out.result.series[i] = StableSorted(points, Len(points))

\* C6: a requested species with no matching record gets an empty series and
\* the line plot does not fail: it is plotted empty beside the species that
\* have records, and the view reports "no data" when none has any.
C6_SpeciesWithoutRecords ==
    (LineRan /\ WellFormed(species_dict)) =>
        \A i \in 1..Len(species_selected) :
            RecordsOf(species_dict, species_selected[i]) = <<>> =>
                /\ ~Failed
                /\ IF Matching(species_dict, species_selected) = <<>>
                   THEN out.result.view = "nodata"
                   ELSE /\ Rendered
                        /\ out.result.series[i] = <<>>
                        /\ \A j \in 1..Len(species_selected) :
                              Len(out.result.series[j])
                                  = Len(RecordsOf(species_dict, species_selected[j]))

C6_Witness ==
    /\ LineRan /\ WellFormed(species_dict) /\ Rendered
    /\ \E i, j \in 1..Len(species_selected) :
          /\ RecordsOf(species_dict, species_selected[i]) = <<>>
          /\ out.result.series[i] = <<>>
          /\ Len(out.result.series[j]) = 2

\* C7: the populations of the bar graph's aggregate rows add up to the
\* populations (0 when absent) of the fetched records of the requested species.
C7_AggregateTotal ==
    (BarRan /\ Rendered) =>
        SumPopulation(out.result.grouped_df, 1)
            = TotalPopulation(Matching(species_dict, species_selected))

C7_Witness ==
    /\ BarRan /\ Rendered
    /\ Len(out.result.grouped_df) = 1
    /\ Len(Matching(species_dict, species_selected)) = 2
    /\ out.result.grouped_df[1].population = 5

\* the (date, species) pairs observed in the records of the requested species
ObservedKeys ==
    LET m == Matching(species_dict, species_selected)
    IN  {<<to_datetime(m[i].obsDt), m[i].comName>> : i \in 1..Len(m)}

\* C8: the aggregate has exactly one row per (date, species) pair observed in
\* a matching record, holding the sum of that pair's populations, and no row
\* for a pair without an observation.
C8_AggregateKeys ==
    (BarRan /\ Rendered) =>
        LET g == out.result.grouped_df
        IN  /\ {<<g[j].date, g[j].species>> : j \in 1..Len(g)} = ObservedKeys
            /\ Len(g) = Cardinality(ObservedKeys)
            /\ \A j \in 1..Len(g) :
                  g[j].population = TotalPopulation(
                      SelectSeq(Matching(species_dict, species_selected),
                                LAMBDA obs : /\ to_datetime(obs.obsDt) = g[j].date
                                             /\ obs.comName = g[j].species))

C8_Witness ==
    /\ BarRan /\ Rendered
    /\ Len(out.result.grouped_df) = 1
    /\ LET m == Matching(species_dict, species_selected)
       IN  /\ Len(m) = 2
           /\ m[1].obsDt # m[2].obsDt
           /\ PopulationOf(m[1]) # PopulationOf(m[2])

\* the simplified columns whose source field some shown record has
PresentSimplified ==
    LET columns == df_columns(Matching(species_dict, species_selected))
    IN  SelectSeq(simplified_columns,
                  LAMBDA name : \E j \in 1..Len(column_mapping) :
                      column_mapping[j][2] = name /\ column_mapping[j][1] \in columns)

\* C9: in simplified mode a display column whose source field no record has
\* is left out and the table is shown with the columns that are present.
C9_SimplifiedOmitsAbsentColumns ==
    ( /\ TableRan /\ out.selection_choice = "Specific Data" /\ out.simplify_data
      /\ ~MissingKey(species_dict, "comName")
      /\ Matching(species_dict, species_selected) # <<>> ) =>
        /\ Rendered
        /\ out.result.columns = PresentSimplified

(***************************************************************************)
(* What the claims about a session speak of                                *)
(***************************************************************************)
\* the request got no 200, or a 200 whose body is no JSON
FailedRequest(request) ==
    request.made /\ ~(request.status_code = 200 /\ request.json)

DependentViews == {"map", "line", "bar", "table"}

\* C1: when the response is not a 200 with a JSON body, the fetch function
\* shows an error and returns no records, and a render pass that starts from
\* the empty record set it reported ends with the map, the line plot, the bar
\* graph and the table in a "no data" state, none of them in an exception;
\* likewise the notable-observations tab after its own fetch.
C1_FetchFailureIsNoData ==
    /\ FailedRequest(page.request) => page.fetch_error # "" /\ species_dict = <<>>
    /\ page.fetch_error # "" =>
          /\ species_dict = <<>>
          /\ \A v \in DependentViews : page[v].view = "nodata"
    /\ FailedRequest(page.notable_request) =>
          page.notable_error # "" /\ page.notable.view = "nodata"

C1_Witness ==
    /\ page.fetch_error # ""
    /\ remote # <<>>
    /\ \A v \in DependentViews : page[v].view = "nodata"
    /\ FailedRequest(page.notable_request)
    /\ page.notable.view = "nodata"

\* the session state holds a zoom level
HasZoom == "zoom_level" \in DOMAIN session_state

\* the stored zoom level is a slider position
ZoomInRange == HasZoom => session_state.zoom_level \in MinZoom..MaxZoom

\* C10: a stored zoom level is an integer in 3..10; it is 3 once the map has
\* been shown for the first time, and afterwards it is the value the user
\* last chose on the zoom slider.
C10_ZoomIsLastChosen ==
    HasZoom =>
        /\ session_state.zoom_level \in MinZoom..MaxZoom
        /\ maps_shown = 1 => session_state.zoom_level = 3
        /\ chosen_zoom # 0 => session_state.zoom_level = chosen_zoom

\* the first call of observed_US_cached has been made
FirstCallMade == app = "project" /\ requests >= 1

C12_FailureNotCached ==
    [][app = "project" =>
          /\ cache'.filled => cache'.error = ""
          /\ (page.fetch_error # "" /\ remote' = remote) => page'.request.made]_vars

\* the session state holds a map center
HasCenter == "map_center" \in DOMAIN session_state

\* the mean position of the selected species' records that carry coordinates
MeanLocation(recs, selected) ==
    LET locations == SelectSeq(species_data_of(recs, selected),
                               LAMBDA obs : HasKeys(obs, {"lat", "lng"}))
    IN  <<Mean(locations, "lat"), Mean(locations, "lng")>>

\* the last pass drew the map
MapDrawn == "center" \in DOMAIN page.map

\* C13: the map center display_map stores first is the mean position of the
\* species selected in that pass; once stored, no later pass changes it, and
\* every map drawn afterwards is centred on it.
C13_MapCenterIsKept ==
    [][/\ (~HasCenter /\ HasCenter') =>
              session_state'.map_center = MeanLocation(species_dict', species_selected')
       /\ HasCenter =>
              /\ HasCenter'
              /\ session_state'.map_center = session_state.map_center
              /\ MapDrawn' => page'.map.center = session_state.map_center]_vars

\* a map drawn again, for a selection whose mean position is not the center
C13_Witness ==
    /\ HasCenter
    /\ maps_shown >= 2
    /\ page.map.view = "rendered"
    /\ page.map.center = session_state.map_center
    /\ session_state.map_center # MeanLocation(species_dict, species_selected)

====
